---- MODULE Spec2Model ----
(***************************************************************************)
(* Model of survey_anim.py: the three binary decoders                      *)
(* (parse_sceneobjinfo_bin, parse_obj_file, parse_lmo_animations) and the  *)
(* cross-reference steps of main().                                        *)
(*                                                                         *)
(* A file is a byte buffer [len, b]: len is its length and b maps the      *)
(* offsets of its nonzero bytes to their values (every other byte is 0).   *)
(* Every u32 of the model is below 2^31 (TLC's integers are 32 bits wide);  *)
(* Python's integers are unbounded, so no sum of the code wraps.           *)
(***************************************************************************)
EXTENDS Integers, Sequences, FiniteSets, TLC

VARIABLES
    pc,     \* where the running function is
    data,   \* the bytes of the file being decoded
    loc,    \* the local variables of the running decoder
    ret,    \* what the decoder has accumulated: result, reads made, raised or not
    prev,   \* what the previous call on the same bytes returned
    fs,     \* the files main() finds: containers, the catalog, the map files
    main    \* the local variables of main()

vars == <<pc, data, loc, ret, prev, fs, main>>

(***************************************************************************)
(* struct.unpack_from over a byte buffer                                   *)
(***************************************************************************)
Byte(d, off) == IF off \in DOMAIN d.b THEN d.b[off] ELSE 0

\* struct.unpack_from raises struct.error unless off + n <= len(buffer)
InBuf(d, off, n) == off >= 0 /\ off + n <= d.len

\* "<I": little-endian unsigned 32 bit
unpack_I(d, off) ==
    Byte(d, off) + 256 * Byte(d, off + 1) + 65536 * Byte(d, off + 2)
        + 16777216 * Byte(d, off + 3)

\* "<i": little-endian signed 32 bit
unpack_i(d, off) ==
    LET top == Byte(d, off + 3)
    IN  Byte(d, off) + 256 * Byte(d, off + 1) + 65536 * Byte(d, off + 2)
            + 16777216 * (IF top >= 128 THEN top - 256 ELSE top)

\* "<h": little-endian signed 16 bit
unpack_h(d, off) ==
    LET u == Byte(d, off) + 256 * Byte(d, off + 1)
    IN  IF u >= 32768 THEN u - 65536 ELSE u

RECURSIVE SumSizes(_)
SumSizes(s) == IF s = <<>> THEN 0 ELSE s[Len(s)][Len(s[Len(s)])] + SumSizes(SubSeq(s, 1, Len(s) - 1))

(***************************************************************************)
(* parse_lmo_animations                                                    *)
(***************************************************************************)
OBJ_TYPE_GEOMETRY == 1

\* the value a decoder returns: its result, the reads it made, whether it raised
NoReads == [results |-> <<>>, dir |-> <<>>, reads |-> {}, raised |-> FALSE]

lmo_shape_above(lmo_version) ==
    IF lmo_version > 4101
      THEN [n_entries |-> 146, has_mtlopac |-> TRUE, mtlopac_count |-> 16]
      ELSE [n_entries |-> 130, has_mtlopac |-> FALSE, mtlopac_count |-> 0]

\* lines 181-190: the size-array shape, chosen by the version alone (0x1005 = 4101)
lmo_shape(lmo_version) ==
    IF lmo_version >= 4101
      THEN [n_entries |-> 146, has_mtlopac |-> TRUE, mtlopac_count |-> 16]
      ELSE [n_entries |-> 130, has_mtlopac |-> FALSE, mtlopac_count |-> 0]

\* lines 229-234: the nonzero mtlopac entries, (s, val), in index order
read_mtlopac(d, off, count) ==
    SelectSeq([k \in 1..count |-> <<k - 1, unpack_I(d, off + (k - 1) * 4)>>],
              LAMBDA e : e[2] > 0)

\* lines 237-241 and 245-249: the nonzero entries of a [16][4] grid, (s, t, val)
read_grid(d, off) ==
    SelectSeq([k \in 1..64 |->
                  <<(k - 1) \div 4, (k - 1) % 4, unpack_I(d, off + (k - 1) * 4)>>],
              LAMBDA e : e[3] > 0)

size_matches_atmost(expected, anim_size) == expected <= anim_size

\* lines 257-259: the size check
size_matches(expected, anim_size) == expected = anim_size

\* lines 261-263: only objects with texuv, teximg or mtlopac data are reported
has_channel(info) ==
    info.texuv_sizes # <<>> \/ info.teximg_sizes # <<>> \/ info.mtlopac_sizes # <<>>

\* lines 203-204: the geometry preamble must fit
preamble_overruns(d, addr, size) == addr + 116 > d.len

table_overruns_start(d, anim_offset, header_bytes) == anim_offset > d.len

\* lines 218-219: the size array must fit
table_overruns(d, anim_offset, header_bytes) == anim_offset + header_bytes > d.len

entry_overruns_start(d, tbl_off) == tbl_off >= d.len

\* lines 197-198: the directory entry must fit, else the loop is left
entry_overruns(d, tbl_off) == tbl_off + 12 > d.len

\* lines 221-263: the size array of the object at anim_offset
lmo_read_object(d, i, anim_offset, anim_size, lmo_version, acc) ==
    LET n_entries == lmo_shape(lmo_version).n_entries
        has_mtlopac == lmo_shape(lmo_version).has_mtlopac
        mtlopac_count == lmo_shape(lmo_version).mtlopac_count
        header_bytes == n_entries * 4
        off1 == anim_offset + 8
        off2 == IF has_mtlopac THEN off1 + mtlopac_count * 4 ELSE off1
        off3 == off2 + 16 * 4 * 4
        info == [bone_size |-> unpack_I(d, anim_offset),
                 mat_size |-> unpack_I(d, anim_offset + 4),
                 mtlopac_sizes |-> IF has_mtlopac
                                     THEN read_mtlopac(d, off1, mtlopac_count)
                                     ELSE <<>>,
                 texuv_sizes |-> read_grid(d, off2),
                 teximg_sizes |-> read_grid(d, off3)]
        rd == {<<anim_offset, 4>>, <<anim_offset + 4, 4>>}
                \cup (IF has_mtlopac
                        THEN {<<off1 + s * 4, 4>> : s \in 0..(mtlopac_count - 1)}
                        ELSE {})
                \cup {<<off2 + k * 4, 4>> : k \in 0..63}
                \cup {<<off3 + k * 4, 4>> : k \in 0..63}
        total == info.bone_size + info.mat_size + SumSizes(info.mtlopac_sizes)
                    + SumSizes(info.texuv_sizes) + SumSizes(info.teximg_sizes)
        expected == header_bytes + total
        acc1 == [acc EXCEPT !.reads = @ \cup rd,
                            !.raised = @ \/ \E r \in rd : ~InBuf(d, r[1], r[2])]
    IN  IF ~size_matches(expected, anim_size) THEN acc1
        ELSE IF has_channel(info)
               THEN [acc1 EXCEPT !.results = Append(@, <<i, info>>)]
               ELSE acc1

\* lines 196-263: one iteration of the directory loop (the break is in lmo_loop)
lmo_entry(d, i, lmo_version, acc) ==
    LET tbl_off == 8 + i * 12
        typ == unpack_I(d, tbl_off)
        addr == unpack_I(d, tbl_off + 4)
        size == unpack_I(d, tbl_off + 8)
        acc1 == [acc EXCEPT !.dir = Append(@, i),
                            !.reads = @ \cup {<<tbl_off, 12>>},
                            !.raised = @ \/ ~InBuf(d, tbl_off, 12)]
        sizes_offset == addr + 100
        mtl_size == unpack_I(d, sizes_offset)
        mesh_size == unpack_I(d, sizes_offset + 4)
        helper_size == unpack_I(d, sizes_offset + 8)
        anim_size == unpack_I(d, sizes_offset + 12)
        acc2 == [acc1 EXCEPT !.reads = @ \cup {<<sizes_offset, 16>>},
                             !.raised = @ \/ ~InBuf(d, sizes_offset, 16)]
        anim_offset == addr + 116 + mtl_size + mesh_size + helper_size
        header_bytes == lmo_shape(lmo_version).n_entries * 4
    IN  IF typ # OBJ_TYPE_GEOMETRY THEN acc1
        ELSE IF preamble_overruns(d, addr, size) THEN acc1
        ELSE IF sizes_offset + 16 > d.len THEN acc1
        ELSE IF anim_size = 0 THEN acc2
        ELSE IF table_overruns(d, anim_offset, header_bytes) THEN acc2
        ELSE lmo_read_object(d, i, anim_offset, anim_size, lmo_version, acc2)

lmo_gate_rejects_500(lmo_version, obj_num) == lmo_version = 0 \/ obj_num >= 500

\* lines 174-178: the legacy and the object-count gates
lmo_gate_rejects(lmo_version, obj_num) == lmo_version = 0 \/ obj_num > 500

NoLocals == [i |-> 0]

\* lines 164-193: read the file, the short-file check, the header and the gates
LmoOpen ==
    /\ pc = "lmo_start"
    /\ IF data.len < 8
         THEN pc' = "lmo_done" /\ UNCHANGED <<loc, ret>>
         ELSE LET lmo_version == unpack_I(data, 0)
                  obj_num == unpack_I(data, 4)
              IN  /\ ret' = [ret EXCEPT !.reads = {<<0, 4>>, <<4, 4>>}]
                  /\ loc' = [i |-> 0, lmo_version |-> lmo_version, obj_num |-> obj_num]
                  /\ pc' = IF lmo_gate_rejects(lmo_version, obj_num)
                             THEN "lmo_done" ELSE "lmo_loop"
    /\ UNCHANGED <<data, prev, fs, main>>

\* lines 195-263: one iteration of for i in range(obj_num)
LmoEntry ==
    /\ pc = "lmo_loop"
    /\ loc.i < loc.obj_num
    /\ ~entry_overruns(data, 8 + loc.i * 12)
    /\ ret' = lmo_entry(data, loc.i, loc.lmo_version, ret)
    /\ loc' = [loc EXCEPT !.i = @ + 1]
    /\ pc' = IF ret'.raised THEN "lmo_done" ELSE "lmo_loop"
    /\ UNCHANGED <<data, prev, fs, main>>

\* lines 195-198 and 265: the loop ends, or is left at an entry that overruns
LmoReturn ==
    /\ pc = "lmo_loop"
    /\ loc.i >= loc.obj_num \/ entry_overruns(data, 8 + loc.i * 12)
    /\ pc' = "lmo_done"
    /\ UNCHANGED <<data, loc, ret, prev, fs, main>>

(***************************************************************************)
(* Container files the decoder is run on.  A file is written from a list   *)
(* of object descriptors: the header, one directory entry per object, then *)
(* each object (116-byte preamble with the size quad at +100, the          *)
(* material/mesh/helper blocks, the size array in the layout of the        *)
(* file's version, the payload), and is then cut to a length.              *)
(***************************************************************************)
MaxObjs == 2

Range(s) == {s[k] : k \in 1..Len(s)}

\* the nonzero bytes of a little-endian 32-bit value written at off
W32(off, v) ==
    {p \in {<<off + k, (v \div (256 ^ k)) % 256>> : k \in 0..3} : p[2] # 0}

Buf(P, n) ==
    [len |-> n,
     b |-> [o \in {p[1] : p \in {q \in P : q[1] < n}} |->
                (CHOOSE p \in P : p[1] = o)[2]]]

Versions == {0, 4099, 4100, 4101, 4102}

WriterEntries(ver) == IF ver >= 4101 THEN 146 ELSE 130

Desc(typ, blocks, bone, mat, opac, uv, img, anim, over) ==
    [typ |-> typ, blocks |-> blocks, bone |-> bone, mat |-> mat, opac |-> opac,
     uv |-> uv, img |-> img, anim |-> anim, over |-> over]

ObjDescs ==
    { Desc(1, <<0, 0, 0>>, 0, 0, <<>>, <<<<0, 0, 128>>>>, <<>>, "exact", "no"),
      Desc(1, <<0, 0, 0>>, 0, 0, <<>>, <<<<0, 0, 128>>>>, <<>>, "plus1", "no"),
      Desc(1, <<0, 0, 0>>, 0, 0, <<>>, <<<<0, 0, 128>>>>, <<>>, "exact", "size"),
      Desc(1, <<0, 0, 0>>, 0, 0, <<>>, <<<<0, 0, 128>>>>, <<>>, "exact", "addr"),
      Desc(1, <<4, 8, 12>>, 8, 2, <<<<0, 1>>, <<15, 2>>>>, <<<<1, 2, 3>>>>,
           <<<<15, 3, 4>>>>, "exact", "no"),
      Desc(1, <<0, 0, 0>>, 0, 4, <<<<3, 8>>>>, <<>>, <<>>, "exact", "no"),
      Desc(1, <<0, 0, 0>>, 16, 0, <<>>, <<>>, <<>>, "exact", "no"),
      Desc(1, <<0, 0, 0>>, 0, 0, <<>>, <<<<0, 0, 128>>>>, <<>>, "zero", "no"),
      Desc(2, <<0, 0, 0>>, 0, 0, <<>>, <<<<0, 0, 128>>>>, <<>>, "exact", "no") }

RECURSIVE SeqsUpTo(_, _)
SeqsUpTo(S, n) ==
    IF n = 0 THEN {<<>>}
    ELSE LET shorter == SeqsUpTo(S, n - 1)
         IN  shorter \cup {Append(s, x) : s \in shorter, x \in S}

BlockBytes(o) == o.blocks[1] + o.blocks[2] + o.blocks[3]

\* the animation block size of a well-formed object: size array plus payload
ExactAnimSize(o, ver) ==
    WriterEntries(ver) * 4 + o.bone + o.mat
        + (IF ver >= 4101 THEN SumSizes(o.opac) ELSE 0)
        + SumSizes(o.uv) + SumSizes(o.img)

WrittenAnimSize(o, ver) ==
    CASE o.anim = "exact" -> ExactAnimSize(o, ver)
      [] o.anim = "plus1" -> ExactAnimSize(o, ver) + 1
      [] o.anim = "zero" -> 0

ObjBytes(o, ver) ==
    116 + BlockBytes(o) + (IF o.anim = "zero" THEN 0 ELSE ExactAnimSize(o, ver))

RECURSIVE ObjAddr(_, _, _)
ObjAddr(objs, k, ver) ==
    IF k = 1 THEN 8 + 12 * Len(objs)
    ELSE ObjAddr(objs, k - 1, ver) + ObjBytes(objs[k - 1], ver)

FullLen(objs, ver) ==
    IF objs = <<>> THEN 8
    ELSE ObjAddr(objs, Len(objs), ver) + ObjBytes(objs[Len(objs)], ver)

\* the directory entry of an object: its size, or a size or an offset past the file
DeclaredSize(o, ver) == ObjBytes(o, ver) + (IF o.over = "size" THEN 1000000 ELSE 0)

DeclaredAddr(objs, k, ver) ==
    ObjAddr(objs, k, ver) + (IF objs[k].over = "addr" THEN 1000000 ELSE 0)

ObjWrite(o, addr, ver) ==
    LET A == addr + 116 + BlockBytes(o)
        uvOff == A + 8 + (IF ver >= 4101 THEN 64 ELSE 0)
    IN  W32(addr + 100, o.blocks[1]) \cup W32(addr + 104, o.blocks[2])
            \cup W32(addr + 108, o.blocks[3])
            \cup W32(addr + 112, WrittenAnimSize(o, ver))
            \cup (IF o.anim = "zero" THEN {}
                  ELSE W32(A, o.bone) \cup W32(A + 4, o.mat)
                        \cup (IF ver >= 4101
                                THEN UNION {W32(A + 8 + 4 * e[1], e[2]) : e \in Range(o.opac)}
                                ELSE {})
                        \cup UNION {W32(uvOff + (e[1] * 4 + e[2]) * 4, e[3]) : e \in Range(o.uv)}
                        \cup UNION {W32(uvOff + 256 + (e[1] * 4 + e[2]) * 4, e[3]) :
                                        e \in Range(o.img)})

LmoWrite(ver, obj_num, objs) ==
    W32(0, ver) \cup W32(4, obj_num)
        \cup UNION { W32(8 + 12 * (k - 1), objs[k].typ)
                        \cup W32(8 + 12 * (k - 1) + 4, DeclaredAddr(objs, k, ver))
                        \cup W32(8 + 12 * (k - 1) + 8, DeclaredSize(objs[k], ver))
                        \cup ObjWrite(objs[k], ObjAddr(objs, k, ver), ver) : k \in 1..Len(objs) }

\* lengths a file is cut to: whole, one byte short, inside the last object's
\* size array, inside the last directory entry, inside the header
Cuts(objs, ver) ==
    LET full == FullLen(objs, ver)
    IN  {full} \cup
        (IF objs = <<>> THEN {7}
         ELSE LET a == ObjAddr(objs, Len(objs), ver)
              IN  {full - 1, a + 116 + BlockBytes(objs[Len(objs)]) + 8,
                   8 + 12 * (Len(objs) - 1) + 5})

\* a geometry object at offset 0 that shares its bytes with the header and the
\* directory: a table can be emitted from a file that ends inside its directory
OverlapWrite(ver, obj_num) ==
    W32(0, ver) \cup W32(4, obj_num) \cup W32(8, 1)
        \cup W32(112, WriterEntries(ver) * 4 + 128)
        \cup W32(124 + (IF ver >= 4101 THEN 64 ELSE 0), 128)

OverlapFixtures ==
    {Buf(OverlapWrite(ver, n), 116 + WriterEntries(ver) * 4 + extra) :
        ver \in Versions, n \in {60, 500, 501}, extra \in {-1, 0, 3, 5, 24}}

LmoFixtures ==
    UNION {{Buf(LmoWrite(ver, Len(objs), objs), n) : n \in Cuts(objs, ver)} :
              ver \in {4100, 4101}, objs \in SeqsUpTo(ObjDescs, MaxObjs)}
        \cup UNION {{Buf(LmoWrite(ver, Len(objs), objs), n) : n \in Cuts(objs, ver)} :
                      ver \in Versions, objs \in SeqsUpTo(ObjDescs, 1)}
        \cup {Buf(LmoWrite(ver, n, objs), FullLen(objs, ver)) :
                  ver \in Versions, n \in {500, 501}, objs \in SeqsUpTo(ObjDescs, 1)}
        \cup OverlapFixtures

InitLmo ==
    /\ pc = "lmo_start"
    /\ data \in LmoFixtures
    /\ loc = NoLocals
    /\ ret = NoReads
    /\ prev = <<>>
    /\ fs = <<>>
    /\ main = <<>>

NextLmo == LmoOpen \/ LmoEntry \/ LmoReturn

SpecLmo == InitLmo /\ [][NextLmo]_vars

(***************************************************************************)
(* parse_sceneobjinfo_bin                                                  *)
(***************************************************************************)
NoCatalog == [result |-> <<>>, reads |-> {}, raised |-> FALSE]

\* line 73: chunk[8 : 8 + 72], cut by the end of the chunk
name_slice(d, base, entry_size) ==
    LET n == (IF entry_size < 80 THEN entry_size ELSE 80) - 8
    IN  [k \in 1..(IF n < 0 THEN 0 ELSE n) |-> Byte(d, base + 8 + k - 1)]

\* lines 74-76: cut at the first zero byte
cut_at_nul(bs) ==
    IF \E k \in 1..Len(bs) : bs[k] = 0
      THEN SubSeq(bs, 1, (CHOOSE k \in 1..Len(bs) :
                              bs[k] = 0 /\ \A m \in 1..(k - 1) : bs[m] # 0) - 1)
      ELSE bs

\* line 77, decode("utf-8", errors="replace"): an ASCII byte is its character,
\* a byte that starts no valid sequence becomes U+FFFD (multi-byte sequences
\* are not written by the files of this model)
decode_utf8(bs) == [k \in 1..Len(bs) |-> IF bs[k] < 128 THEN bs[k] ELSE 65533]

Whitespace == {9, 10, 11, 12, 13, 28, 29, 30, 31, 32}

\* line 77, strip()
strip(str) ==
    LET keep == {k \in 1..Len(str) : str[k] \notin Whitespace}
    IN  IF keep = {} THEN <<>>
        ELSE SubSeq(str, CHOOSE k \in keep : \A m \in keep : k <= m,
                         CHOOSE k \in keep : \A m \in keep : m <= k)

\* line 77, lower()
lower(str) == [k \in 1..Len(str) |-> IF str[k] >= 65 /\ str[k] <= 90 THEN str[k] + 32 ELSE str[k]]

\* lines 73-77
record_filename(d, base, entry_size) ==
    lower(strip(decode_utf8(cut_at_nul(name_slice(d, base, entry_size)))))

dict_set_keep(result, key, value) ==
    [x \in DOMAIN result \cup {key} |-> IF x \in DOMAIN result THEN result[x] ELSE value]

\* line 80: result[obj_id] = filename
dict_set(result, key, value) ==
    [x \in DOMAIN result \cup {key} |-> IF x = key THEN value ELSE result[x]]

\* lines 62-80: one record; the chunk is entry_size bytes long, and a read past
\* its end raises struct.error
cat_record(d, base, entry_size, acc) ==
    LET b_exist == unpack_i(d, base)
        obj_id == unpack_I(d, base + 100)
        filename == record_filename(d, base, entry_size)
        acc1 == [acc EXCEPT !.reads = @ \cup {<<base, 4>>}]
        acc2 == [acc1 EXCEPT !.reads = @ \cup {<<base + 100, 4>>}]
    IN  IF entry_size < 4 THEN [acc1 EXCEPT !.raised = TRUE]
        ELSE IF b_exist = 0 THEN acc1
        ELSE IF entry_size < 104 THEN [acc2 EXCEPT !.raised = TRUE]
        ELSE IF filename # <<>>
               THEN [acc2 EXCEPT !.result = dict_set(@, obj_id, filename)]
               ELSE acc2

\* lines 43-56: the short-file check, entry_size, data = data[4:], entry_count
CatOpen ==
    /\ pc = "cat_start"
    /\ IF data.len < 4
         THEN pc' = "cat_done" /\ ret' = NoCatalog /\ UNCHANGED loc
         ELSE LET entry_size == unpack_I(data, 0)
              IN  /\ ret' = [NoCatalog EXCEPT !.reads = {<<0, 4>>}]
                  /\ IF entry_size = 0
                       THEN pc' = "cat_done" /\ UNCHANGED loc
                       ELSE /\ loc' = [i |-> 0, entry_size |-> entry_size,
                                       entry_count |-> (data.len - 4) \div entry_size]
                            /\ pc' = "cat_loop"
    /\ UNCHANGED <<data, prev, fs, main>>

\* lines 58-80: one iteration of for i in range(entry_count)
CatRecord ==
    /\ pc = "cat_loop"
    /\ loc.i < loc.entry_count
    /\ loc.i * loc.entry_size + loc.entry_size <= data.len - 4
    /\ ret' = cat_record(data, 4 + loc.i * loc.entry_size, loc.entry_size, ret)
    /\ loc' = [loc EXCEPT !.i = @ + 1]
    /\ pc' = IF ret'.raised THEN "cat_done" ELSE "cat_loop"
    /\ UNCHANGED <<data, prev, fs, main>>

\* lines 58-61 and 82: the loop ends
CatReturn ==
    /\ pc = "cat_loop"
    /\ \/ loc.i >= loc.entry_count
       \/ loc.i * loc.entry_size + loc.entry_size > data.len - 4
    /\ pc' = "cat_done"
    /\ UNCHANGED <<data, loc, ret, prev, fs, main>>

\* the same bytes are decoded a second time
CatAgain ==
    /\ pc = "cat_done"
    /\ prev = <<>>
    /\ fs = <<>>
    /\ main = <<>>
    /\ ~ret.raised
    /\ prev' = <<ret.result>>
    /\ pc' = "cat_start"
    /\ loc' = NoLocals
    /\ UNCHANGED <<data, ret, fs, main>>

(***************************************************************************)
(* Catalog files: the record width, then records of that width holding     *)
(* exists at +0, the name at +8 and the id at +100 (each field is written  *)
(* only when it lies inside the record), then some trailing bytes.         *)
(***************************************************************************)
MaxRecords == 3

Rec(exists, name, id) == [exists |-> exists, name |-> name, id |-> id]

\* names: "A", "b ", "a" NUL "b", "B", "b", " "
CatRecords ==
    { Rec(1, <<65>>, 42), Rec(1, <<98, 32>>, 42), Rec(1, <<97, 0, 98>>, 7),
      Rec(-1, <<66>>, 7), Rec(0, <<98>>, 42), Rec(1, <<32>>, 42) }

NarrowRecords == {Rec(0, <<>>, 0), Rec(1, <<>>, 0)}

RecWrite(r, base, width) ==
    (IF width >= 4 THEN W32(base, r.exists) ELSE {})
        \cup {p \in {<<base + 8 + k - 1, r.name[k]>> : k \in 1..Len(r.name)} :
                p[2] # 0 /\ 8 + Len(r.name) <= width}
        \cup (IF width >= 104 THEN W32(base + 100, r.id) ELSE {})

CatWrite(width, recs) ==
    W32(0, width) \cup UNION {RecWrite(recs[k], 4 + (k - 1) * width, width) : k \in 1..Len(recs)}

CatFile(width, recs, tail) == Buf(CatWrite(width, recs), 4 + width * Len(recs) + tail)

CatFixtures ==
    {CatFile(104, recs, 0) : recs \in SeqsUpTo(CatRecords, MaxRecords)}
        \cup {CatFile(104, recs, 5) : recs \in SeqsUpTo(CatRecords, 2)}
        \cup {CatFile(108, recs, 0) : recs \in SeqsUpTo(CatRecords, 2)}
        \cup {CatFile(width, recs, 0) :
                  width \in {0, 2, 8, 100}, recs \in SeqsUpTo(NarrowRecords, 2)}
        \cup {Buf({}, n) : n \in {0, 3}}

InitCat ==
    /\ pc = "cat_start"
    /\ data \in CatFixtures
    /\ loc = NoLocals
    /\ ret = NoCatalog
    /\ prev = <<>>
    /\ fs = <<>>
    /\ main = <<>>

NextCat == CatOpen \/ CatRecord \/ CatReturn \/ CatAgain

SpecCat == InitCat /\ [][NextCat]_vars

(***************************************************************************)
(* parse_obj_file                                                          *)
(***************************************************************************)
\* line 124: placements = set().  The set is kept as a duplicate-free
\* sequence in insertion order; the order of list(placements) is not modelled.
NoPlacements == [placements |-> <<>>, reads |-> {}, raised |-> FALSE]

packed_type_signed(raw_type_id) == raw_type_id \div 16384

\* line 136: (raw_type_id & 0xFFFF) >> 14
packed_type(raw_type_id) == (raw_type_id % 65536) \div 16384

\* line 137: (raw_type_id & 0xFFFF) & 0x3FFF
packed_id(raw_type_id) == (raw_type_id % 65536) % 16384

placement_kept_any(obj_type, obj_id) == obj_type <= 1

\* line 138
placement_kept(obj_type, obj_id) == obj_id > 0 /\ obj_type <= 1

list_append(placements, x) == Append(placements, x)

\* line 139: placements.add(...)
set_add(placements, x) ==
    IF \E k \in 1..Len(placements) : placements[k] = x THEN placements
    ELSE Append(placements, x)

\* lines 95-124: the short-file check, the version, the grid, the section index
ObjOpen ==
    /\ pc = "obj_start"
    /\ IF data.len < 44
         THEN pc' = "obj_done" /\ ret' = NoPlacements /\ UNCHANGED loc
         ELSE LET version == unpack_i(data, 16)
                  section_cnt_x == unpack_i(data, 24)
                  section_cnt_y == unpack_i(data, 28)
                  section_cnt == section_cnt_x * section_cnt_y
                  idx_start == 44
                  n == IF section_cnt < 0 THEN 0 ELSE section_cnt
              IN  IF version # 600
                    THEN /\ pc' = "obj_done"
                         /\ ret' = [NoPlacements EXCEPT !.reads = {<<16, 4>>}]
                         /\ UNCHANGED loc
                  ELSE IF idx_start + section_cnt * 8 > data.len
                    THEN /\ pc' = "obj_done"
                         /\ ret' = [NoPlacements EXCEPT
                                      !.reads = {<<16, 4>>, <<24, 4>>, <<28, 4>>}]
                         /\ UNCHANGED loc
                  ELSE /\ ret' = [NoPlacements EXCEPT
                                    !.reads = {<<16, 4>>, <<24, 4>>, <<28, 4>>}
                                        \cup {<<idx_start + k * 8, 4>> : k \in 0..(n - 1)}
                                        \cup {<<idx_start + k * 8 + 4, 4>> : k \in 0..(n - 1)}]
                       /\ loc' = [s |-> 0, j |-> 0, section_cnt |-> section_cnt,
                                  section_offsets |->
                                      [k \in 1..n |-> unpack_i(data, idx_start + (k - 1) * 8)],
                                  section_counts |->
                                      [k \in 1..n |-> unpack_i(data, idx_start + (k - 1) * 8 + 4)]]
                       /\ pc' = "obj_section"
    /\ UNCHANGED <<data, prev, fs, main>>

\* lines 125-129: the next section; one with count <= 0 or offset <= 0 is passed over
ObjSection ==
    /\ pc = "obj_section"
    /\ loc.s < loc.section_cnt
    /\ LET count == loc.section_counts[loc.s + 1]
           offset == loc.section_offsets[loc.s + 1]
       IN  IF count <= 0 \/ offset <= 0
             THEN loc' = [loc EXCEPT !.s = @ + 1] /\ pc' = "obj_section"
             ELSE loc' = [loc EXCEPT !.j = 0] /\ pc' = "obj_slot"
    /\ UNCHANGED <<data, ret, prev, fs, main>>

\* lines 131-139: one slot of the section
ObjSlot ==
    /\ pc = "obj_slot"
    /\ loc.j < loc.section_counts[loc.s + 1]
    /\ LET entry_off == loc.section_offsets[loc.s + 1] + loc.j * 20
           raw_type_id == unpack_h(data, entry_off)
           obj_type == packed_type(raw_type_id)
           obj_id == packed_id(raw_type_id)
       IN  /\ entry_off + 20 <= data.len
           /\ ret' = [ret EXCEPT
                        !.reads = @ \cup {<<entry_off, 2>>},
                        !.raised = @ \/ ~InBuf(data, entry_off, 2),
                        !.placements = IF placement_kept(obj_type, obj_id)
                                         THEN set_add(@, <<obj_type, obj_id>>)
                                         ELSE @]
    /\ loc' = [loc EXCEPT !.j = @ + 1]
    /\ pc' = IF ret'.raised THEN "obj_done" ELSE "obj_slot"
    /\ UNCHANGED <<data, prev, fs, main>>

\* lines 131-134: the slots of the section end, or the next one overruns the file
ObjSlotsEnd ==
    /\ pc = "obj_slot"
    /\ \/ loc.j >= loc.section_counts[loc.s + 1]
       \/ loc.section_offsets[loc.s + 1] + loc.j * 20 + 20 > data.len
    /\ loc' = [loc EXCEPT !.s = @ + 1]
    /\ pc' = "obj_section"
    /\ UNCHANGED <<data, ret, prev, fs, main>>

\* lines 125 and 141: every section is done
ObjReturn ==
    /\ pc = "obj_section"
    /\ loc.s >= loc.section_cnt
    /\ pc' = "obj_done"
    /\ UNCHANGED <<data, loc, ret, prev, fs, main>>

(***************************************************************************)
(* Map files: the 44-byte header (version at 16, grid at 24 and 28), the   *)
(* section index of (offset, count) pairs, then the 20-byte slots of each  *)
(* section, the packed 16-bit value first.                                  *)
(***************************************************************************)
MaxSlots == 2

\* (0, 42), (1, 42), (2, 42), (1, 0)
PackedValues == {42, 16384 + 42, 32768 + 42, 16384}

SlotBytes(sections, k) == 20 * Len(sections[k])

RECURSIVE SectionOffset(_, _)
SectionOffset(sections, k) ==
    IF k = 1 THEN 44 + 8 * Len(sections)
    ELSE SectionOffset(sections, k - 1) + SlotBytes(sections, k - 1)

MapFullLen(sections) ==
    IF sections = <<>> THEN 44
    ELSE SectionOffset(sections, Len(sections)) + SlotBytes(sections, Len(sections))

\* a map file whose index gives each section its own offset and slot count;
\* extra is added to every count, cut is taken off the end of the file
MapWrite(version, x, y, sections, extra) ==
    W32(16, version) \cup W32(24, x) \cup W32(28, y)
        \cup UNION { W32(44 + 8 * (k - 1), SectionOffset(sections, k))
                        \cup W32(44 + 8 * (k - 1) + 4, Len(sections[k]) + extra)
                        \cup UNION {W32(SectionOffset(sections, k) + 20 * (n - 1),
                                        sections[k][n]) : n \in 1..Len(sections[k])} :
                     k \in 1..Len(sections) }

SlotSeqs == SeqsUpTo(PackedValues, MaxSlots)

MapFixtures ==
    {Buf(MapWrite(600, Len(secs), 1, secs, 0), MapFullLen(secs)) :
        secs \in SeqsUpTo(SlotSeqs, 2)}
      \cup {Buf(MapWrite(v, x, y, secs, extra), MapFullLen(secs) - cut) :
              v \in {600, 601}, x \in {-1, 1, 2}, y \in {-1, 1}, extra \in {-3, 0, 4},
              cut \in {0, 1}, secs \in SeqsUpTo(SeqsUpTo({42, 32768 + 42}, 1), 2)}
      \cup {Buf({}, n) : n \in {0, 43}}

InitObj ==
    /\ pc = "obj_start"
    /\ data \in MapFixtures
    /\ loc = NoLocals
    /\ ret = NoPlacements
    /\ prev = <<>>
    /\ fs = <<>>
    /\ main = <<>>

NextObj == ObjOpen \/ ObjSection \/ ObjSlot \/ ObjSlotsEnd \/ ObjReturn

SpecObj == InitObj /\ [][NextObj]_vars

\* the single-slot map file that places the packed value v
PackedFile(v) == Buf(MapWrite(600, 1, 1, <<<<v>>>>, 0), 72)

InitPacked ==
    /\ pc = "obj_start"
    /\ data \in {PackedFile(v) : v \in 0..65535}
    /\ loc = NoLocals
    /\ ret = NoPlacements
    /\ prev = <<>>
    /\ fs = <<>>
    /\ main = <<>>

SpecPacked == InitPacked /\ [][NextObj]_vars

(***************************************************************************)
(* main(): the container scan, the catalog, the cross-reference, the maps  *)
(***************************************************************************)
NoMain ==
    [li |-> 1, oi |-> 1, lmo_anim_data |-> <<>>, obj_id_to_lmo |-> <<>>,
     animated_obj_ids |-> {}, map_to_animated |-> <<>>, map_model_counts |-> <<>>,
     texuv_subsets |-> <<>>, teximg_subsets |-> <<>>, mtlopac_subsets |-> <<>>]

\* lines 290-302: a container shorter than 4 bytes or of version 0 is not parsed
MainSkipLmo ==
    /\ pc = "scan_lmo"
    /\ main.li <= Len(fs.lmo)
    /\ fs.lmo[main.li].data.len < 4 \/ unpack_I(fs.lmo[main.li].data, 0) = 0
    /\ main' = [main EXCEPT !.li = @ + 1]
    /\ UNCHANGED <<pc, data, loc, ret, prev, fs>>

\* lines 290-304: anims = parse_lmo_animations(lmo_path)
MainCallLmo ==
    /\ pc = "scan_lmo"
    /\ main.li <= Len(fs.lmo)
    /\ ~(fs.lmo[main.li].data.len < 4 \/ unpack_I(fs.lmo[main.li].data, 0) = 0)
    /\ data' = fs.lmo[main.li].data
    /\ loc' = NoLocals
    /\ ret' = NoReads
    /\ pc' = "lmo_start"
    /\ UNCHANGED <<prev, fs, main>>

\* lines 292 and 305-306: lmo_anim_data[basename] = anims, when anims is not empty
MainStoreLmo ==
    /\ pc = "lmo_done"
    /\ LET basename == lower(fs.lmo[main.li].name)
           anims == ret.results
       IN  main' = [main EXCEPT !.li = @ + 1,
                          !.lmo_anim_data =
                              IF anims # <<>> THEN dict_set(@, basename, anims) ELSE @]
    /\ pc' = "scan_lmo"
    /\ UNCHANGED <<data, loc, ret, prev, fs>>

\* line 354: obj_id_to_lmo = parse_sceneobjinfo_bin(SCENEOBJINFO_BIN)
MainCallCatalog ==
    /\ pc = "scan_lmo"
    /\ main.li > Len(fs.lmo)
    /\ data' = fs.cat
    /\ loc' = NoLocals
    /\ ret' = NoCatalog
    /\ pc' = "cat_start"
    /\ UNCHANGED <<prev, fs, main>>

\* lines 357-368: the ids whose catalog name is the name of an animated container
animated_ids(obj_id_to_lmo, lmo_anim_data) ==
    LET lmo_to_obj_ids(lmo_name) ==
            {obj_id \in DOMAIN obj_id_to_lmo : obj_id_to_lmo[obj_id] = lmo_name}
    IN  UNION {lmo_to_obj_ids(lmo_name) : lmo_name \in DOMAIN lmo_anim_data}

\* lines 354-368; an exception of the catalog decoder ends the run
MainCrossReference ==
    /\ pc = "cat_done"
    /\ IF ret.raised
         THEN pc' = "crashed" /\ UNCHANGED main
         ELSE /\ main' = [main EXCEPT !.obj_id_to_lmo = ret.result,
                                !.animated_obj_ids = animated_ids(ret.result, main.lmo_anim_data)]
              /\ pc' = "scan_obj"
    /\ UNCHANGED <<data, loc, ret, prev, fs>>

\* lines 392-394: placements = parse_obj_file(obj_path)
MainCallObj ==
    /\ pc = "scan_obj"
    /\ main.oi <= Len(fs.maps)
    /\ data' = fs.maps[main.oi].data
    /\ loc' = NoLocals
    /\ ret' = NoPlacements
    /\ pc' = "obj_start"
    /\ UNCHANGED <<prev, fs, main>>

\* line 393: os.path.splitext(os.path.basename(obj_path))[0]
map_name_of(file) == file.name

\* lines 398-400: map_to_animated[map_name].add(obj_id) for each animated model
add_animated(map_to_animated, map_name, ids) ==
    IF ids = {} THEN map_to_animated
    ELSE [x \in DOMAIN map_to_animated \cup {map_name} |->
            IF x = map_name
              THEN (IF x \in DOMAIN map_to_animated THEN map_to_animated[x] ELSE {}) \cup ids
              ELSE map_to_animated[x]]

\* lines 393-400
MainStoreObj ==
    /\ pc = "obj_done"
    /\ LET map_name == map_name_of(fs.maps[main.oi])
           placements == Range(ret.placements)
           model_placements == {p \in placements : p[1] = 0}
           hits == {p[2] : p \in {q \in placements :
                                    q[1] = 0 /\ q[2] \in main.animated_obj_ids}}
       IN  main' = [main EXCEPT
                   !.oi = @ + 1,
                   !.map_model_counts = dict_set(@, map_name, Cardinality(model_placements)),
                   !.map_to_animated = add_animated(@, map_name, hits)]
    /\ pc' = "scan_obj"
    /\ UNCHANGED <<data, loc, ret, prev, fs>>

\* lines 392 and 402: every map file is done
MainMapsDone ==
    /\ pc = "scan_obj"
    /\ main.oi > Len(fs.maps)
    /\ pc' = "maps_done"
    /\ UNCHANGED <<data, loc, ret, prev, fs, main>>

\* lines 459-469: the keys one container exhibits, over all its reported objects
seen_texuv(anims) ==
    {<<e[1], e[2]>> : e \in UNION {Range(anims[k][2].texuv_sizes) : k \in 1..Len(anims)}}

seen_teximg(anims) ==
    {<<e[1], e[2]>> : e \in UNION {Range(anims[k][2].teximg_sizes) : k \in 1..Len(anims)}}

seen_mtlopac(anims) ==
    {e[1] : e \in UNION {Range(anims[k][2].mtlopac_sizes) : k \in 1..Len(anims)}}

\* lines 470-475: subsets[key] += 1 for each key of seen, on a defaultdict(int)
count_seen(subsets, seen) ==
    [key \in DOMAIN subsets \cup seen |->
        (IF key \in DOMAIN subsets THEN subsets[key] ELSE 0)
            + (IF key \in seen THEN 1 ELSE 0)]

\* lines 454-475: one pass over the items of lmo_anim_data
RECURSIVE aggregate(_, _, _)
aggregate(lmo_anim_data, todo, acc) ==
    IF todo = {} THEN acc
    ELSE LET basename == CHOOSE x \in todo : TRUE
             anims == lmo_anim_data[basename]
         IN  aggregate(lmo_anim_data, todo \ {basename},
                 [texuv_subsets |-> count_seen(acc.texuv_subsets, seen_texuv(anims)),
                  teximg_subsets |-> count_seen(acc.teximg_subsets, seen_teximg(anims)),
                  mtlopac_subsets |-> count_seen(acc.mtlopac_subsets, seen_mtlopac(anims))])

\* lines 454-475
MainAggregate ==
    /\ pc = "maps_done"
    /\ LET agg == aggregate(main.lmo_anim_data, DOMAIN main.lmo_anim_data,
                            [texuv_subsets |-> <<>>, teximg_subsets |-> <<>>,
                             mtlopac_subsets |-> <<>>])
       IN  main' = [main EXCEPT !.texuv_subsets = agg.texuv_subsets,
                                !.teximg_subsets = agg.teximg_subsets,
                                !.mtlopac_subsets = agg.mtlopac_subsets]
    /\ pc' = "main_done"
    /\ UNCHANGED <<data, loc, ret, prev, fs>>

(***************************************************************************)
(* The files of a run: containers "A.lmo" and "b.lmo", a catalog, and a    *)
(* map file "m.obj" in each of the two map directories.  sorted() puts    *)
(* the files of MAP_DIR_1 before those of MAP_DIR_2.                       *)
(***************************************************************************)
UvObject == Desc(1, <<0, 0, 0>>, 0, 0, <<>>, <<<<0, 0, 128>>>>, <<>>, "exact", "no")
BoneObject == Desc(1, <<0, 0, 0>>, 16, 0, <<>>, <<>>, <<>>, "exact", "no")

LmoFile(ver, objs) == Buf(LmoWrite(ver, Len(objs), objs), FullLen(objs, ver))

MainLmoChoices ==
    {LmoFile(4101, <<BoneObject, UvObject>>), LmoFile(4100, <<BoneObject>>),
     LmoFile(0, <<UvObject>>)}

MainLmoSets ==
    {<<>>} \cup {<<[name |-> <<65>>, data |-> d]>> : d \in MainLmoChoices}
           \cup {<<[name |-> <<98>>, data |-> d]>> : d \in MainLmoChoices}
           \cup {<<[name |-> <<65>>, data |-> d1], [name |-> <<98>>, data |-> d2]>> :
                    d1 \in MainLmoChoices, d2 \in MainLmoChoices}

MainCatalogs ==
    {CatFile(104, recs, 0) :
        recs \in SeqsUpTo({Rec(1, <<65>>, 42), Rec(1, <<98, 32>>, 7), Rec(1, <<98>>, 42)}, 2)}
      \cup {CatFile(8, <<Rec(1, <<>>, 0)>>, 0)}

MapFile(slots) == Buf(MapWrite(600, 1, 1, <<slots>>, 0), MapFullLen(<<slots>>))

MainMapChoices ==
    {MapFile(<<42, 42>>), MapFile(<<16384 + 42, 7>>), MapFile(<<>>)}

MainMapSets ==
    {<<>>} \cup {<<[dir |-> dr, name |-> <<109>>, data |-> d]>> :
                    dr \in {1, 2}, d \in MainMapChoices}
           \cup {<<[dir |-> 1, name |-> <<109>>, data |-> d1],
                   [dir |-> 2, name |-> <<109>>, data |-> d2]>> :
                    d1 \in MainMapChoices, d2 \in MainMapChoices}
           \cup {<<[dir |-> 1, name |-> <<109>>, data |-> d1],
                   [dir |-> 1, name |-> <<110>>, data |-> d2]>> :
                    d1 \in MainMapChoices, d2 \in MainMapChoices}

InitMain ==
    /\ pc = "scan_lmo"
    /\ fs \in [lmo : MainLmoSets, cat : MainCatalogs, maps : MainMapSets]
    /\ main = NoMain
    /\ data = Buf({}, 0)
    /\ loc = NoLocals
    /\ ret = NoReads
    /\ prev = <<>>

NextMain ==
    \/ MainSkipLmo \/ MainCallLmo \/ LmoOpen \/ LmoEntry \/ LmoReturn \/ MainStoreLmo
    \/ MainCallCatalog \/ CatOpen \/ CatRecord \/ CatReturn \/ MainCrossReference
    \/ MainCallObj \/ ObjOpen \/ ObjSection \/ ObjSlot \/ ObjSlotsEnd \/ ObjReturn
    \/ MainStoreObj \/ MainMapsDone \/ MainAggregate

SpecMain == InitMain /\ [][NextMain]_vars

(***************************************************************************)
(* The files of a run of the aggregate: containers "A.lmo", "a.lmo" and    *)
(* "b.lmo" (glob on a case-sensitive file system, in sorted order), among  *)
(* them one with two objects of the same key and one with all channels.    *)
(***************************************************************************)
AllObject ==
    Desc(1, <<4, 8, 12>>, 8, 2, <<<<0, 1>>, <<15, 2>>>>, <<<<1, 2, 3>>>>,
         <<<<15, 3, 4>>>>, "exact", "no")
ImgObject == Desc(1, <<0, 0, 0>>, 0, 0, <<>>, <<>>, <<<<0, 0, 128>>>>, "exact", "no")

AggLmoChoices ==
    {LmoFile(4100, <<UvObject, UvObject>>), LmoFile(4101, <<AllObject, UvObject>>),
     LmoFile(4100, <<ImgObject>>), LmoFile(4100, <<BoneObject>>), LmoFile(0, <<UvObject>>)}

AggLmoSets ==
    LET pick(name) == {<<>>} \cup {<<[name |-> name, data |-> d]>> : d \in AggLmoChoices}
    IN  {a \o b \o c : a \in pick(<<65>>), b \in pick(<<97>>), c \in pick(<<98>>)}

InitAggregate ==
    /\ pc = "scan_lmo"
    /\ fs \in [lmo : AggLmoSets,
               cat : {CatFile(104, <<Rec(1, <<65>>, 42)>>, 0)},
               maps : {<<>>, <<[dir |-> 1, name |-> <<109>>, data |-> MapFile(<<42, 42>>)]>>}]
    /\ main = NoMain
    /\ data = Buf({}, 0)
    /\ loc = NoLocals
    /\ ret = NoReads
    /\ prev = <<>>

SpecAggregate == InitAggregate /\ [][NextMain]_vars

(***************************************************************************)
(* Properties of parse_lmo_animations, stated on the bytes of the file     *)
(***************************************************************************)
Ver(d) == unpack_I(d, 0)
ObjNum(d) == unpack_I(d, 4)
PassesGate(d) == d.len >= 8 /\ Ver(d) # 0 /\ ObjNum(d) <= 500

\* the directory entries that lie wholly inside the file
Readable(d) ==
    IF d.len < 20 THEN {} ELSE {i \in 0..((d.len - 20) \div 12) : i < ObjNum(d)}

Processed(d) == IF PassesGate(d) THEN Readable(d) ELSE {}

DirTyp(d, i) == unpack_I(d, 8 + 12 * i)
DirAddr(d, i) == unpack_I(d, 8 + 12 * i + 4)
DirSize(d, i) == unpack_I(d, 8 + 12 * i + 8)

Entries(d) == IF Ver(d) >= 4101 THEN 146 ELSE 130

AnimSizeOf(d, i) == unpack_I(d, DirAddr(d, i) + 112)

TableStart(d, i) ==
    DirAddr(d, i) + 116 + unpack_I(d, DirAddr(d, i) + 100)
        + unpack_I(d, DirAddr(d, i) + 104) + unpack_I(d, DirAddr(d, i) + 108)

PreambleFits(d, i) == DirAddr(d, i) + 116 <= d.len
TableFits(d, i) == PreambleFits(d, i) /\ TableStart(d, i) + 4 * Entries(d) <= d.len

RECURSIVE SumWords(_, _, _)
SumWords(d, off, n) ==
    IF n = 0 THEN 0
    ELSE IF n = 1 THEN unpack_I(d, off)
    ELSE SumWords(d, off, n \div 2) + SumWords(d, off + 4 * (n \div 2), n - (n \div 2))

\* header_bytes plus every entry of the size array
ExpectedTotal(d, i) == 4 * Entries(d) + SumWords(d, TableStart(d, i), Entries(d))

\* the entries after bone_size and material_anim_size
ChannelBytes(d, i) == SumWords(d, TableStart(d, i) + 8, Entries(d) - 2)

EmitsAt(d, i) ==
    /\ DirTyp(d, i) = 1
    /\ TableFits(d, i)
    /\ AnimSizeOf(d, i) # 0
    /\ ExpectedTotal(d, i) = AnimSizeOf(d, i)
    /\ ChannelBytes(d, i) > 0

Emitted(r) == {r.results[k][1] : k \in 1..Len(r.results)}

InfoTotal(info) ==
    info.bone_size + info.mat_size + SumSizes(info.mtlopac_sizes)
        + SumSizes(info.texuv_sizes) + SumSizes(info.teximg_sizes)

\* C1: a table is emitted for an object only if header_bytes + bone_size +
\* material_anim_size + the opacity, uv and image sizes equals the object's
\* animation_block_size exactly; an object whose animation_block_size differs
\* is absent from the result, and the other objects of the file are emitted.
C1_ExactSize ==
    pc = "lmo_done" =>
        /\ \A k \in 1..Len(ret.results) :
              4 * Entries(data) + InfoTotal(ret.results[k][2])
                  = AnimSizeOf(data, ret.results[k][1])
        /\ \A i \in Processed(data) :
              (DirTyp(data, i) = 1 /\ TableFits(data, i) /\ AnimSizeOf(data, i) # 0) =>
                  (i \in Emitted(ret) <=>
                      (ExpectedTotal(data, i) = AnimSizeOf(data, i)
                          /\ ChannelBytes(data, i) > 0))

C1_Witness ==
    /\ pc = "lmo_done"
    /\ \E i, j \in Processed(data) :
          /\ DirTyp(data, i) = 1 /\ TableFits(data, i)
          /\ AnimSizeOf(data, i) = ExpectedTotal(data, i) + 1
          /\ i \notin Emitted(ret)
          /\ j \in Emitted(ret)

NonzeroGrid(d, off) ==
    {e \in {<<s, t, unpack_I(d, off + (s * 4 + t) * 4)>> : s \in 0..15, t \in 0..3} :
        e[3] > 0}

NonzeroOpac(d, off) == {e \in {<<s, unpack_I(d, off + s * 4)>> : s \in 0..15} : e[2] > 0}

Lists(seq, S) == Range(seq) = S /\ Len(seq) = Cardinality(S)

\* C2: the header shape is a function of format_version alone: below 0x1005
\* the decoder uses 130 entries and emits no opacity sizes; from 0x1005 on it
\* uses 146 entries and reads 16 opacity entries between material_anim_size
\* and the uv grid.
C2_ShapeByVersion ==
    pc = "lmo_done" =>
      /\ \A i \in Processed(data) : EmitsAt(data, i) => i \in Emitted(ret)
      /\ \A k \in 1..Len(ret.results) :
            LET i == ret.results[k][1]
                info == ret.results[k][2]
                A == TableStart(data, i)
            IN  /\ info.bone_size = unpack_I(data, A)
                /\ info.mat_size = unpack_I(data, A + 4)
                /\ IF Ver(data) < 4101
                     THEN /\ AnimSizeOf(data, i) - InfoTotal(info) = 4 * 130
                          /\ {<<A + 4 * n, 4>> : n \in 0..129} \subseteq ret.reads
                          /\ info.mtlopac_sizes = <<>>
                          /\ Lists(info.texuv_sizes, NonzeroGrid(data, A + 8))
                          /\ Lists(info.teximg_sizes, NonzeroGrid(data, A + 8 + 256))
                     ELSE /\ AnimSizeOf(data, i) - InfoTotal(info) = 4 * 146
                          /\ {<<A + 4 * n, 4>> : n \in 0..145} \subseteq ret.reads
                          /\ Lists(info.mtlopac_sizes, NonzeroOpac(data, A + 8))
                          /\ Lists(info.texuv_sizes, NonzeroGrid(data, A + 8 + 64))
                          /\ Lists(info.teximg_sizes, NonzeroGrid(data, A + 8 + 64 + 256))

C2_Witness ==
    /\ pc = "lmo_done"
    /\ Ver(data) = 4101
    /\ \E k \in 1..Len(ret.results) :
          /\ ret.results[k][2].mtlopac_sizes # <<>>
          /\ ret.results[k][2].texuv_sizes # <<>>

\* C4 as claimed: every directory entry whose declared byte region
\* (byte_offset + declared_size) exceeds the file length is skipped.
C4_DeclaredRegionSkipped ==
    pc = "lmo_done" =>
        \A i \in Processed(data) :
            DirAddr(data, i) + DirSize(data, i) > data.len => i \notin Emitted(ret)

\* C4 as amended: every Geometry directory entry whose 116-byte preamble or
\* whose size array exceeds the file length is skipped: no table is emitted
\* for it, nothing is read past the file, and decoding continues with the
\* next entry.
C4_OverrunSkipped ==
    pc = "lmo_done" =>
        /\ ~ret.raised
        /\ \A r \in ret.reads : InBuf(data, r[1], r[2])
        /\ Len(ret.dir) = Cardinality(Processed(data))
        /\ \A i \in Processed(data) :
              (DirTyp(data, i) = 1 /\ ~TableFits(data, i)) => i \notin Emitted(ret)

C4_Witness ==
    /\ pc = "lmo_done"
    /\ \E i, j \in Processed(data) :
          /\ i < j
          /\ DirTyp(data, i) = 1 /\ ~TableFits(data, i)
          /\ i \notin Emitted(ret)
          /\ j \in Emitted(ret)

\* C9: the decoder returns an empty result whenever format_version is 0 and
\* whenever object_count is greater than 500, whatever the rest of the file;
\* object_count = 500 is not rejected.
C9_Gates ==
    pc = "lmo_done" =>
        /\ (data.len >= 8 /\ (Ver(data) = 0 \/ ObjNum(data) > 500)) =>
              (ret.results = <<>> /\ ret.dir = <<>>)
        /\ (data.len >= 8 /\ Ver(data) # 0 /\ ObjNum(data) = 500) =>
              Emitted(ret) = {i \in Readable(data) : EmitsAt(data, i)}

C9_Witness ==
    /\ pc = "lmo_done"
    /\ Ver(data) # 0 /\ ObjNum(data) = 501
    /\ 0 \in Readable(data) /\ EmitsAt(data, 0)
    /\ ret.results = <<>>

CutEntry(d) == (d.len - 8) \div 12

CutInsideDirectory(d) ==
    d.len > 8 /\ (d.len - 8) % 12 # 0 /\ CutEntry(d) < ObjNum(d)

\* C10: when the file ends inside directory entry k (k < object_count) and
\* passes the version and count gates, the decoder processes exactly the
\* entries 0..k-1, in order, never reads entry k or a later one, and returns
\* the tables of the processed entries without an error.
C10_Truncated ==
    (pc = "lmo_done" /\ PassesGate(data) /\ CutInsideDirectory(data)) =>
        LET k == CutEntry(data)
        IN  /\ ret.dir = [j \in 1..k |-> j - 1]
            /\ ~ret.raised
            /\ \A r \in ret.reads : r[2] = 12 => r[1] + 12 <= 8 + 12 * k
            /\ \A r \in ret.reads : InBuf(data, r[1], r[2])
            /\ Emitted(ret) = {i \in 0..(k - 1) : EmitsAt(data, i)}
            /\ \A m, n \in 1..Len(ret.results) :
                  m < n => ret.results[m][1] < ret.results[n][1]

C10_Witness ==
    /\ pc = "lmo_done"
    /\ PassesGate(data) /\ CutInsideDirectory(data)
    /\ CutEntry(data) >= 2
    /\ ret.results # <<>>

(***************************************************************************)
(* Properties of parse_sceneobjinfo_bin                                    *)
(***************************************************************************)
CatWidth(d) == unpack_I(d, 0)
CatCount(d) == IF d.len < 4 \/ CatWidth(d) = 0 THEN 0 ELSE (d.len - 4) \div CatWidth(d)
RecBase(d, k) == 4 + k * CatWidth(d)
RecExists(d, k) == unpack_i(d, RecBase(d, k))
RecId(d, k) == unpack_I(d, RecBase(d, k) + 100)
RecName(d, k) == record_filename(d, RecBase(d, k), CatWidth(d))

\* the records the catalog is built from: exists flag nonzero, name non-empty
Included(d) ==
    {k \in 0..(CatCount(d) - 1) : RecExists(d, k) # 0 /\ RecName(d, k) # <<>>}

\* C3: whatever the bytes of the file, a decoder returns a result and never
\* raises: every read lies inside the buffer it reads from.
C3_NeverRaises == ~ret.raised

\* C8: the catalog maps each object_id to the name of the last included record
\* that carries it; a record with exists = 0 or an empty name adds, overwrites
\* and removes nothing; decoding the same bytes again gives the same catalog.
C8_LastWins ==
    (pc = "cat_done" /\ ~ret.raised) =>
        /\ DOMAIN ret.result = {RecId(data, k) : k \in Included(data)}
        /\ \A k \in Included(data) :
              (\A m \in Included(data) : RecId(data, m) = RecId(data, k) => m <= k)
                  => ret.result[RecId(data, k)] = RecName(data, k)
        /\ prev # <<>> =>
              /\ DOMAIN prev[1] = DOMAIN ret.result
              /\ \A x \in DOMAIN ret.result : prev[1][x] = ret.result[x]

C8_Witness ==
    /\ pc = "cat_done"
    /\ prev # <<>>
    /\ \E k, m \in Included(data) :
          /\ k < m
          /\ RecId(data, k) = RecId(data, m)
          /\ RecName(data, k) # RecName(data, m)
          /\ ret.result[RecId(data, m)] = RecName(data, m)
          /\ \E x \in 0..(CatCount(data) - 1) :
                x > m /\ x \notin Included(data) /\ RecId(data, x) = RecId(data, m)

(***************************************************************************)
(* Properties of parse_obj_file                                            *)
(***************************************************************************)
MapSections(d) == unpack_i(d, 24) * unpack_i(d, 28)

MapAccepted(d) ==
    d.len >= 44 /\ unpack_i(d, 16) = 600 /\ 44 + 8 * MapSections(d) <= d.len

\* the offsets of the slots of section s that lie wholly inside the file
SectionSlots(d, s) ==
    LET off == unpack_i(d, 44 + 8 * s)
        count == unpack_i(d, 44 + 8 * s + 4)
    IN  IF off <= 0 \/ count <= 0 THEN {}
        ELSE {off + 20 * j : j \in {n \in 0..(d.len \div 20) :
                                        n < count /\ off + 20 * n + 20 <= d.len}}

SlotOffsets(d) ==
    IF MapAccepted(d) THEN UNION {SectionSlots(d, s) : s \in 0..(MapSections(d) - 1)}
    ELSE {}

\* the packed value of a slot as an unsigned 16-bit integer
U16(d, off) == Byte(d, off) + 256 * Byte(d, off + 1)

KindOf(v) == v \div 16384
IdOf(v) == v % 16384

\* C6: for every 16-bit packed value v, top bit set or not, kind = v >> 14 and
\* id = v & 0x3FFF are taken from the unsigned value, and the placement is
\* kept if and only if id > 0 and kind is 0 or 1.
C6_PackedField ==
    pc = "obj_done" =>
        /\ Range(ret.placements) =
              {p \in {<<KindOf(U16(data, o)), IdOf(U16(data, o))>> : o \in SlotOffsets(data)} :
                  p[2] > 0 /\ p[1] \in {0, 1}}
        /\ \A p \in Range(ret.placements) : p[1] \in {0, 1} /\ p[2] \in 1..16383

C6_Witness ==
    /\ pc = "obj_done"
    /\ \E o \in SlotOffsets(data) :
          U16(data, o) = 32768 + 16384 + 42 /\ <<o, 2>> \in ret.reads
    /\ ret.placements = <<>>

\* C7: the result holds each (kind, id) pair at most once, however many slots
\* and sections place it.
C7_Dedup ==
    \A m, n \in 1..Len(ret.placements) : m # n => ret.placements[m] # ret.placements[n]

C7_Witness ==
    /\ pc = "obj_done"
    /\ \E s1, s2 \in 0..(MapSections(data) - 1) :
          /\ s1 # s2
          /\ \E o1 \in SectionSlots(data, s1), o2 \in SectionSlots(data, s2) :
                /\ o1 # o2
                /\ U16(data, o1) = U16(data, o2)
                /\ Cardinality({k \in 1..Len(ret.placements) :
                        ret.placements[k] = <<KindOf(U16(data, o1)), IdOf(U16(data, o1))>>}) = 1

(***************************************************************************)
(* Properties of main()'s cross-reference                                  *)
(***************************************************************************)
\* the containers main() keeps an entry for: parsed, and at least one report
AnimatedContainers ==
    {lower(f.name) : f \in {g \in Range(fs.lmo) :
        /\ g.data.len >= 4
        /\ Ver(g.data) # 0
        /\ PassesGate(g.data)
        /\ \E i \in Processed(g.data) : EmitsAt(g.data, i)}}

\* the catalog ids whose model file is an animated container
AnimatedIds ==
    {obj_id \in DOMAIN main.obj_id_to_lmo :
        main.obj_id_to_lmo[obj_id] \in AnimatedContainers}

\* the ids one map file places with kind 0
ModelIdsOf(file) ==
    IF ~MapAccepted(file.data) THEN {}
    ELSE {IdOf(U16(file.data, o)) :
            o \in {q \in SlotOffsets(file.data) :
                     KindOf(U16(file.data, q)) = 0 /\ IdOf(U16(file.data, q)) > 0}}

\* what the report holds for one map file
ReportedFor(file) ==
    IF map_name_of(file) \in DOMAIN main.map_to_animated
      THEN main.map_to_animated[map_name_of(file)]
      ELSE {}

SameNamedMaps ==
    \E i, j \in 1..Len(fs.maps) : i # j /\ fs.maps[i].name = fs.maps[j].name

\* C5: once every map file is scanned, the animated ids reported for a map file
\* are exactly the ids that file places with kind 0 and that are animated; the
\* placements of another map file contribute nothing to it.
C5_PerMapFile ==
    pc = "maps_done" =>
        \A k \in 1..Len(fs.maps) :
            ReportedFor(fs.maps[k]) = ModelIdsOf(fs.maps[k]) \cap AnimatedIds

\* C5, restricted to runs where no two map files share a base name
C5_UniqueNames ==
    (pc = "maps_done" /\ ~SameNamedMaps) =>
        \A k \in 1..Len(fs.maps) :
            ReportedFor(fs.maps[k]) = ModelIdsOf(fs.maps[k]) \cap AnimatedIds

C5_UniqueNamesWitness ==
    /\ pc = "maps_done"
    /\ ~SameNamedMaps
    /\ Len(fs.maps) = 2
    /\ ReportedFor(fs.maps[1]) # {}
    /\ ReportedFor(fs.maps[2]) = {}
    /\ ModelIdsOf(fs.maps[2]) # {}

(***************************************************************************)
(* Properties of main()'s channel-usage aggregate                          *)
(***************************************************************************)
\* the objects of a container file for which a table is emitted
EmittedObjects(d) ==
    IF d.len >= 4 /\ Ver(d) # 0 /\ PassesGate(d)
      THEN {i \in Processed(d) : EmitsAt(d, i)}
      ELSE {}

GridStart(d, i) == TableStart(d, i) + 8 + (IF Ver(d) >= 4101 THEN 64 ELSE 0)

\* the keys a container file exhibits, per channel, read from its bytes
UvKeys(d) ==
    {<<e[1], e[2]>> :
        e \in UNION {NonzeroGrid(d, GridStart(d, i)) : i \in EmittedObjects(d)}}

ImgKeys(d) ==
    {<<e[1], e[2]>> :
        e \in UNION {NonzeroGrid(d, GridStart(d, i) + 256) : i \in EmittedObjects(d)}}

OpacKeys(d) ==
    IF Ver(d) >= 4101
      THEN {e[1] : e \in UNION {NonzeroOpac(d, TableStart(d, i) + 8) :
                                    i \in EmittedObjects(d)}}
      ELSE {}

CountOf(subsets, key) == IF key \in DOMAIN subsets THEN subsets[key] ELSE 0

Containers == 1..Len(fs.lmo)

\* the count of every key of one channel is the number of container files
\* that exhibit the key
CountsFiles(subsets, Keys(_)) ==
    \A key \in DOMAIN subsets \cup UNION {Keys(fs.lmo[k].data) : k \in Containers} :
        CountOf(subsets, key)
            = Cardinality({k \in Containers : key \in Keys(fs.lmo[k].data)})

SameNamedContainers ==
    \E i, j \in Containers : i # j /\ lower(fs.lmo[i].name) = lower(fs.lmo[j].name)

\* C11: in the aggregate, the count of a key of a channel (opacity by subset,
\* uv and image by (subset, stage)) is the number of distinct containers in
\* which an emitted table has an entry with that key: several objects of one
\* container with the same key add 1, and the channels are counted
\* independently of each other.
C11_PerContainer ==
    pc = "main_done" =>
        /\ CountsFiles(main.texuv_subsets, UvKeys)
        /\ CountsFiles(main.teximg_subsets, ImgKeys)
        /\ CountsFiles(main.mtlopac_subsets, OpacKeys)

\* C11, restricted to runs where no two container files have the same
\* lowercase name
C11_DistinctNames ==
    (pc = "main_done" /\ ~SameNamedContainers) =>
        /\ CountsFiles(main.texuv_subsets, UvKeys)
        /\ CountsFiles(main.teximg_subsets, ImgKeys)
        /\ CountsFiles(main.mtlopac_subsets, OpacKeys)

C11_DistinctNamesWitness ==
    /\ pc = "main_done"
    /\ ~SameNamedContainers
    /\ \E k \in Containers : Cardinality(EmittedObjects(fs.lmo[k].data)) = 2
    /\ CountOf(main.texuv_subsets, <<0, 0>>) = 2
    /\ CountOf(main.teximg_subsets, <<0, 0>>) = 0
    /\ CountOf(main.teximg_subsets, <<15, 3>>) = 1
    /\ CountOf(main.mtlopac_subsets, 15) = 1

====
